---- MODULE Spec2Model ----
(***************************************************************************)
(* Model of the procurement application (src/procurement.py): the entity   *)
(* store (PurchaseRequest, LineItem, PurchaseOrder, ApprovalLog, Balance), *)
(* the request handlers that change it, and update_balance_for_pr.         *)
(*                                                                         *)
(* One action is one HTTP request handled to completion, every commit and  *)
(* every call of update_balance_for_pr it makes included.  A request that  *)
(* raises after a commit keeps what was committed and loses the rest (the  *)
(* session is rolled back when the request is torn down).                  *)
(*                                                                         *)
(* Money and quantities are integers (the floats of the program hold the   *)
(* small integers used here exactly).  Columns that no handler reads in a  *)
(* decision (description, unit, brand_name, comment, the timestamps) are   *)
(* carried by the program unchanged and are left out of the rows.          *)
(*                                                                         *)
(* The database is chosen by DATABASE_URL (procurement.py:18): SQLite, the *)
(* fallback, gives a new row the largest id in use plus one and does not   *)
(* enforce foreign keys; PostgreSQL draws ids from a sequence that never   *)
(* goes back and enforces foreign keys.  `backend` is fixed in Init.       *)
(***************************************************************************)
EXTENDS Integers, Sequences, FiniteSets, TLC

VARIABLES
    backend,    \* "sqlite" or "postgresql"
    user,       \* ids of the User rows
    prs,        \* set of PurchaseRequest rows
    items,      \* set of LineItem rows
    pos,        \* sequence of PurchaseOrder rows, in id order
    logs,       \* sequence of ApprovalLog rows, in id order
    balances,   \* sequence of Balance rows, in id order
    seq,        \* PostgreSQL sequences: last id drawn for each table
    calls,      \* requests in progress: what each worker's reconcile has read
    last        \* history: the request handled last and how it ended

vars == <<backend, user, prs, items, pos, logs, balances, seq, calls, last>>

store == <<prs, items, pos, logs, balances>>

----------------------------------------------------------------------------
(* Bounds of the model *)

MaxPrId == 1        \* PurchaseRequest ids ever used
MaxItemId == 3      \* LineItem ids ever used
MaxRows == 1        \* rows of one submitted purchase-order form
MaxPOs == 2         \* PurchaseOrder rows
MaxLogs == 1        \* ApprovalLog rows
MaxConcurrentPOs == 1   \* PurchaseOrder rows where requests run concurrently
MaxAudit == 2           \* ApprovalLog rows of the audit specification

----------------------------------------------------------------------------
(* Users and form values *)

NULL == 0

\* User rows: the default admin (created at start-up) and two users made by it.
Users == {1, 2, 3}

role(u) == CASE u = 1 -> "admin" [] u = 2 -> "approver" [] OTHER -> "requester"

Statuses == {"draft", "pending", "approved", "rejected"}

NoAction == "None"  \* request.form.get('action') when the field is absent

\* the action values a client may post to pr_approve
Actions == {"approve", "reject", "banana", "", NoAction}

PrIds == 1..MaxPrId
ItemIds == 1..MaxItemId

----------------------------------------------------------------------------
(* Helpers *)

\* int(text) and float(text) succeed on these texts and raise on the others
Numerals == {"0", "1", "2", "5", "6", "9", "10"}
number(text) ==
    CASE text = "0" -> 0 [] text = "1" -> 1 [] text = "2" -> 2 [] text = "5" -> 5
      [] text = "6" -> 6 [] text = "9" -> 9 [] text = "10" -> 10

Max(S) == IF S = {} THEN 0 ELSE CHOOSE x \in S : \A y \in S : y <= x

RECURSIVE SumSet(_, _)
\* sum of f[x] over the finite set S
SumSet(S, f) ==
    IF S = {} THEN 0
    ELSE LET x == CHOOSE y \in S : TRUE IN f[x] + SumSet(S \ {x}, f)

\* the sequence s without position k
RemoveAt(s, k) ==
    [i \in 1..(Len(s) - 1) |-> IF i < k THEN s[i] ELSE s[i + 1]]

\* the positions of s, ascending, as a sequence
RECURSIVE Ascending(_)
Ascending(S) ==
    IF S = {} THEN <<>>
    ELSE LET x == CHOOSE y \in S : \A z \in S : y <= z
         IN  <<x>> \o Ascending(S \ {x})

Ids(rows) == {r.id : r \in rows}

\* PurchaseRequest.query.get(pr_id) on table P
HasPr(P, pr_id) == \E p \in P : p.id = pr_id
GetPr(P, pr_id) == CHOOSE p \in P : p.id = pr_id

\* the id the database gives the k-th row inserted in one flush into `table`,
\* whose rows are `rows` when the flush starts
NewId(rows, table, k) ==
    IF backend = "sqlite" THEN Max(Ids(rows)) + k ELSE seq[table] + k

\* the sequences after n rows were inserted into `table`
Drawn(table, n) ==
    IF backend = "sqlite" THEN seq ELSE [seq EXCEPT ![table] = @ + n]

\* LineItem.subtotal
subtotal(li) == li.quantity * li.unit_price

\* pr.line_items and pr.purchase_orders, on tables I and O
line_items(I, pr_id) == {li \in I : li.pr_id = pr_id}
purchase_orders(O, pr_id) == {i \in 1..Len(O) : O[i].pr_id = pr_id}

\* po.item: the LineItem the PO's item_id names, if the table holds it
HasItem(I, item_id) == \E li \in I : li.id = item_id
GetItem(I, item_id) == CHOOSE li \in I : li.id = item_id
po_quantity(I, po) ==
    IF HasItem(I, po.item_id) THEN GetItem(I, po.item_id).quantity ELSE 0

----------------------------------------------------------------------------
(* Balance reconciliation *)

\* compute_pr_total: the helper that prefers the cached pr.total
compute_pr_total(P, pr_id) == IF ~HasPr(P, pr_id) THEN 0 ELSE GetPr(P, pr_id).total

\* mutant: the pr_total is taken from the cached pr.total
pr_total_of_Cached(P, I, pr_id) == compute_pr_total(P, pr_id)

\* mutant: the pr_total is summed over every LineItem of the store
pr_total_of_Unscoped(P, I, pr_id) == SumSet(I, [li \in I |-> subtotal(li)])

\* the pr_total of update_balance_for_pr: summed over the PR's line items
pr_total_of(P, I, pr_id) ==
    SumSet(line_items(I, pr_id), [li \in line_items(I, pr_id) |-> subtotal(li)])

\* the po_total of update_balance_for_pr
po_total_of(I, O, pr_id) ==
    SumSet(purchase_orders(O, pr_id),
           [i \in purchase_orders(O, pr_id) |->
               O[i].quotation_price * po_quantity(I, O[i])])

\* Balance.query.filter_by(pr_id=pr_id).first()
HasBalance(bals, pr_id) == \E i \in 1..Len(bals) : bals[i].pr_id = pr_id
FirstBalance(bals, pr_id) ==
    CHOOSE i \in 1..Len(bals) :
        /\ bals[i].pr_id = pr_id
        /\ \A j \in 1..Len(bals) : bals[j].pr_id = pr_id => i <= j

\* the Balance row update_balance_for_pr adds when the PR has none
CreatedBalance(pr, pr_total, po_total) ==
    [activity_name |-> pr.title,
     pr_total_amount |-> pr_total,
     po_total_amount |-> po_total,
     balance_amount |-> pr_total - po_total,
     user_id |-> pr.created_by,
     pr_id |-> pr.id]

\* mutant: the update path leaves balance_amount as it was
UpdatedBalance_StaleAmount(bal, pr_total, po_total) ==
    [bal EXCEPT !.pr_total_amount = pr_total, !.po_total_amount = po_total]

\* the Balance row update_balance_for_pr updates in place
UpdatedBalance(bal, pr_total, po_total) ==
    [bal EXCEPT !.pr_total_amount = pr_total,
                !.po_total_amount = po_total,
                !.balance_amount = pr_total - po_total]

\* mutant: the update path refreshes activity_name and user_id from the PR
update_balance_for_pr_Refreshes(P, I, O, bals, pr_id) ==
    IF ~HasPr(P, pr_id) THEN bals
    ELSE LET pr == GetPr(P, pr_id)
             pr_total == pr_total_of(P, I, pr_id)
             po_total == po_total_of(I, O, pr_id)
         IN  IF ~HasBalance(bals, pr_id)
             THEN Append(bals, CreatedBalance(pr, pr_total, po_total))
             ELSE [bals EXCEPT ![FirstBalance(bals, pr_id)] =
                       [UpdatedBalance(@, pr_total, po_total) EXCEPT
                           !.activity_name = pr.title,
                           !.user_id = pr.created_by]]

\* mutant: a row is added at every call, whether or not the PR has one
update_balance_for_pr_AlwaysAdds(P, I, O, bals, pr_id) ==
    IF ~HasPr(P, pr_id) THEN bals
    ELSE Append(bals, CreatedBalance(GetPr(P, pr_id), pr_total_of(P, I, pr_id),
                                     po_total_of(I, O, pr_id)))

\* mutant: a PR that does not exist counts as a PR with totals of zero
update_balance_for_pr_AbsentIsZero(P, I, O, bals, pr_id) ==
    LET pr_total == IF HasPr(P, pr_id) THEN pr_total_of(P, I, pr_id) ELSE 0
        po_total == IF HasPr(P, pr_id) THEN po_total_of(I, O, pr_id) ELSE 0
    IN  IF ~HasBalance(bals, pr_id)
        THEN IF HasPr(P, pr_id)
             THEN Append(bals, CreatedBalance(GetPr(P, pr_id), pr_total, po_total))
             ELSE bals
        ELSE [bals EXCEPT ![FirstBalance(bals, pr_id)] =
                  UpdatedBalance(@, pr_total, po_total)]

\* update_balance_for_pr(pr_id): the Balance table it leaves, from table bals,
\* with the PurchaseRequest, LineItem and PurchaseOrder tables P, I, O
update_balance_for_pr(P, I, O, bals, pr_id) ==
    IF ~HasPr(P, pr_id) THEN bals
    ELSE LET pr == GetPr(P, pr_id)
             pr_total == pr_total_of(P, I, pr_id)
             po_total == po_total_of(I, O, pr_id)
         IN  IF ~HasBalance(bals, pr_id)
             THEN Append(bals, CreatedBalance(pr, pr_total, po_total))
             ELSE [bals EXCEPT ![FirstBalance(bals, pr_id)] =
                       UpdatedBalance(@, pr_total, po_total)]

\* update_balance_for_pr called for each PR id of the sequence ids in turn
RECURSIVE update_balances(_, _, _, _, _)
update_balances(P, I, O, bals, ids) ==
    IF ids = <<>> THEN bals
    ELSE update_balances(P, I, O,
                         update_balance_for_pr(P, I, O, bals, Head(ids)), Tail(ids))

\* recalc_all_balances
recalc_all_balances(P, I, O, bals) ==
    update_balances(P, I, O, bals, Ascending(Ids(P)))

----------------------------------------------------------------------------
(* Submitted forms *)

\* Form fields arrive as text.  The rows of the line-item form of pr_new and
\* pr_edit used here: two priced items, one with a quantity that is no number,
\* one without a name
Pen == [item_name |-> "pen", quantity |-> "2", unit_price |-> "10"]
Ink == [item_name |-> "ink", quantity |-> "1", unit_price |-> "5"]
Unparsed == [item_name |-> "pen", quantity |-> "x", unit_price |-> "5"]
Unnamed == [item_name |-> "", quantity |-> "1", unit_price |-> "5"]

\* the line-item forms submitted: of no, one and two rows
LineForms == {<<>>, <<Ink>>, <<Pen, Ink>>, <<Unparsed, Ink>>, <<Unnamed, Ink>>}

\* the rows of the form of po_create used here, for any LineItem id: two
\* quotations and one that is no number
PoRows ==
    {[item_id |-> i, supplier_name |-> q[1], quotation_price |-> q[2]] :
        i \in ItemIds, q \in {<<"s1", "9">>, <<"s2", "6">>, <<"s1", "x">>}}

SeqsUpTo(S, n) == UNION {[1..k -> S] : k \in 0..n}

\* int(quantity) or float(unit_price) raises on this row
Unparsable(row) == row.quantity \notin Numerals \/ row.unit_price \notin Numerals

RECURSIVE SumSeq(_)
SumSeq(s) == IF s = <<>> THEN 0 ELSE Head(s) + SumSeq(Tail(s))

----------------------------------------------------------------------------
(* History *)

\* the threads of the server that handle requests at the same time
Workers == {1, 2}

\* a worker that handles no request
Idle == [at |-> "idle"]

Unobserved == [op |-> "other", pr |-> NULL, outcome |-> "other", form |-> <<>>]

Observed ==
    {<<"pr_delete", "conflict">>, <<"balance_activity", "ok">>, <<"pr_edit", "ok">>,
     <<"po_create", "refused">>, <<"pr_approve", "forbidden">>,
     <<"update_po", "unreconciled">>}

----------------------------------------------------------------------------
(* Initial state: the tables db.create_all() makes, empty but for the users *)

Init ==
    /\ backend \in {"sqlite", "postgresql"}
    /\ user = Users
    /\ prs = {}
    /\ items = {}
    /\ pos = <<>>
    /\ logs = <<>>
    /\ balances = <<>>
    /\ seq = [purchase_request |-> 0, line_item |-> 0]
    /\ calls = [w \in Workers |-> Idle]
    /\ last = Unobserved

\* `last` observes a request, and the form it submitted, when its handler and
\* outcome are listed in Observed
EndedWith(op, pr_id, outcome, form) ==
    last' = IF <<op, outcome>> \in Observed
            THEN [op |-> op, pr |-> pr_id, outcome |-> outcome, form |-> form]
            ELSE Unobserved

Ended(op, pr_id, outcome) == EndedWith(op, pr_id, outcome, <<>>)

\* the request changed nothing in the database
Refused(op, pr_id, outcome) ==
    /\ Ended(op, pr_id, outcome)
    /\ UNCHANGED <<user, calls, backend, prs, items, pos, logs, balances, seq>>

----------------------------------------------------------------------------
(* Purchase requests *)

\* the LineItem rows pr_new adds for the form rows, from the first new id on
NewLineItems(pr_id, rows, first) ==
    {[id |-> first + (i - 1),
      pr_id |-> pr_id,
      item_name |-> rows[i].item_name,
      quantity |-> number(rows[i].quantity),
      unit_price |-> number(rows[i].unit_price)] : i \in 1..Len(rows)}

\* POST /pr/new by user u
pr_new(u, title, rows) ==
    LET id == NewId(prs, "purchase_request", 1)
        pr == [id |-> id, title |-> title, created_by |-> u,
               status |-> "draft", total |-> 0]
    IN  /\ role(u) \in {"admin", "approver", "requester"}
        /\ prs' = prs \cup {pr}                      \* first commit
        /\ IF \E i \in 1..Len(rows) : Unparsable(rows[i])
           THEN \* int()/float() raises: the PR stays, no LineItem is committed
                /\ items' = items
                /\ seq' = Drawn("purchase_request", 1)
                /\ Ended("pr_new", id, "error")
           ELSE /\ items' = items \cup
                       NewLineItems(id, rows, NewId(items, "line_item", 1))
                /\ seq' = [Drawn("purchase_request", 1) EXCEPT
                              !.line_item = IF backend = "sqlite" THEN @
                                            ELSE @ + Len(rows)]
                /\ Ended("pr_new", id, "ok")
        /\ UNCHANGED <<user, calls, backend, pos, logs, balances>>

\* the rows of the form pr_edit keeps: those with a name
Named(rows) == SelectSeq(rows, LAMBDA r : r.item_name # "")

\* the quantity and price pr_edit stores for a row
edit_quantity(row) == IF Unparsable(row) THEN 1 ELSE number(row.quantity)
edit_price(row) == IF Unparsable(row) THEN 0 ELSE number(row.unit_price)

\* the LineItem rows pr_edit adds for the form rows, from the first new id on
EditedLineItems(pr_id, rows, first) ==
    {[id |-> first + (i - 1),
      pr_id |-> pr_id,
      item_name |-> Named(rows)[i].item_name,
      quantity |-> edit_quantity(Named(rows)[i]),
      unit_price |-> edit_price(Named(rows)[i])] : i \in 1..Len(Named(rows))}

\* the total pr_edit stores in the PR
edit_total(rows) ==
    SumSeq([i \in 1..Len(Named(rows)) |->
               edit_quantity(Named(rows)[i]) * edit_price(Named(rows)[i])])

\* mutant: the old rows are not deleted
Remaining_KeepsOld(I, pr_id) == I

\* the LineItem table after LineItem.query.filter_by(pr_id=pr.id).delete()
Remaining(I, pr_id) == I \ line_items(I, pr_id)

\* a PurchaseOrder row references one of the LineItem rows
Referenced(lis) == \E i \in 1..Len(pos) : pos[i].item_id \in Ids(lis)

\* POST /pr/<pr_id>/edit by user u
pr_edit(u, pr_id, title, rows) ==
    IF ~HasPr(prs, pr_id) THEN Refused("pr_edit", pr_id, "notfound")
    ELSE LET pr == GetPr(prs, pr_id)
             old == line_items(items, pr_id)
             kept == Remaining(items, pr_id)
             P == (prs \ {pr}) \cup
                  {[pr EXCEPT !.title = title, !.total = edit_total(rows)]}
             I == kept \cup EditedLineItems(pr_id, rows, NewId(kept, "line_item", 1))
         IN  IF u # pr.created_by /\ role(u) \notin {"admin", "approver"}
             THEN Refused("pr_edit", pr_id, "forbidden")
             ELSE IF backend = "postgresql" /\ Referenced(old)
             THEN \* the DELETE violates purchase_order.item_id's foreign key
                  Refused("pr_edit", pr_id, "error")
             ELSE /\ prs' = P
                  /\ items' = I
                  /\ seq' = Drawn("line_item", Len(Named(rows)))
                  /\ balances' = update_balance_for_pr(P, I, pos, balances, pr_id)
                  /\ EndedWith("pr_edit", pr_id, "ok", rows)
                  /\ UNCHANGED <<user, calls, backend, pos, logs>>

\* POST /pr/submit/<pr_id> by user u
pr_submit(u, pr_id) ==
    IF ~HasPr(prs, pr_id) THEN Refused("pr_submit", pr_id, "notfound")
    ELSE LET pr == GetPr(prs, pr_id)
         IN  IF pr.created_by # u \/ role(u) # "requester"
             THEN Refused("pr_submit", pr_id, "denied")
             ELSE /\ prs' = (prs \ {pr}) \cup {[pr EXCEPT !.status = "pending"]}
                  /\ Ended("pr_submit", pr_id, "ok")
                  /\ UNCHANGED <<user, calls, backend, items, pos, logs, balances, seq>>

\* mutant: every action value but "reject" approves
approve_status_Default(status, action) ==
    IF action = "reject" THEN "rejected" ELSE "approved"

\* the status pr_approve leaves for the submitted action
approve_status(status, action) ==
    IF action = "approve" THEN "approved"
    ELSE IF action = "reject" THEN "rejected"
    ELSE status

\* mutant: the role of the actor is not looked at
pr_approve_AnyRole(u, pr_id, action) ==
    IF ~HasPr(prs, pr_id) THEN Refused("pr_approve", pr_id, "notfound")
    ELSE LET pr == GetPr(prs, pr_id)
         IN  /\ action # NoAction
             /\ prs' = (prs \ {pr}) \cup
                    {[pr EXCEPT !.status = approve_status(pr.status, action)]}
             /\ logs' = Append(logs, [pr_id |-> pr.id, user_id |-> u,
                                      action |-> action])
             /\ Ended("pr_approve", pr_id, "ok")
             /\ UNCHANGED <<user, calls, backend, items, pos, balances, seq>>

\* POST /pr/<pr_id>/approve by user u
pr_approve(u, pr_id, action) ==
    IF ~HasPr(prs, pr_id) THEN Refused("pr_approve", pr_id, "notfound")
    ELSE LET pr == GetPr(prs, pr_id)
         IN  IF role(u) \notin {"approver", "admin"}
             THEN Refused("pr_approve", pr_id, "forbidden")
             ELSE IF action = NoAction
             THEN \* approval_log.action is NOT NULL: the commit fails
                  Refused("pr_approve", pr_id, "error")
             ELSE /\ prs' = (prs \ {pr}) \cup
                         {[pr EXCEPT !.status = approve_status(pr.status, action)]}
                  /\ logs' = Append(logs, [pr_id |-> pr.id, user_id |-> u,
                                           action |-> action])
                  /\ Ended("pr_approve", pr_id, "ok")
                  /\ UNCHANGED <<user, calls, backend, items, pos, balances, seq>>

\* a Balance or ApprovalLog row references the PR
PrReferenced(pr_id) ==
    \/ \E i \in 1..Len(balances) : balances[i].pr_id = pr_id
    \/ \E i \in 1..Len(logs) : logs[i].pr_id = pr_id

\* the LineItem table after db.session.delete(pr): the relationship has no
\* delete cascade, so the PR's rows stay with pr_id set to NULL
Orphaned(I, pr_id) ==
    {IF li.pr_id = pr_id THEN [li EXCEPT !.pr_id = NULL] ELSE li : li \in I}

\* mutant: the PR is deleted without looking at its purchase orders
pr_delete_Unguarded(u, pr_id) ==
    IF role(u) # "admin" THEN Refused("pr_delete", pr_id, "denied")
    ELSE IF ~HasPr(prs, pr_id) THEN Refused("pr_delete", pr_id, "notfound")
    ELSE /\ prs' = prs \ {GetPr(prs, pr_id)}
         /\ items' = Orphaned(items, pr_id)
         /\ Ended("pr_delete", pr_id, "ok")
         /\ UNCHANGED <<user, calls, backend, pos, logs, balances, seq>>

\* mutant: the ApprovalLog rows of the PR are deleted with it
pr_delete_Cascades(u, pr_id) ==
    IF role(u) # "admin" THEN Refused("pr_delete", pr_id, "denied")
    ELSE IF ~HasPr(prs, pr_id) THEN Refused("pr_delete", pr_id, "notfound")
    ELSE IF purchase_orders(pos, pr_id) # {}
    THEN Refused("pr_delete", pr_id, "conflict")
    ELSE /\ prs' = prs \ {GetPr(prs, pr_id)}
         /\ items' = Orphaned(items, pr_id)
         /\ logs' = SelectSeq(logs, LAMBDA l : l.pr_id # pr_id)
         /\ Ended("pr_delete", pr_id, "ok")
         /\ UNCHANGED <<user, calls, backend, pos, balances, seq>>

\* POST /pr/delete/<pr_id> by user u
pr_delete(u, pr_id) ==
    IF role(u) # "admin" THEN Refused("pr_delete", pr_id, "denied")
    ELSE IF ~HasPr(prs, pr_id) THEN Refused("pr_delete", pr_id, "notfound")
    ELSE IF purchase_orders(pos, pr_id) # {}
    THEN Refused("pr_delete", pr_id, "conflict")
    ELSE IF backend = "postgresql" /\ PrReferenced(pr_id)
    THEN \* the DELETE violates the foreign key of balance or approval_log
         Refused("pr_delete", pr_id, "error")
    ELSE /\ prs' = prs \ {GetPr(prs, pr_id)}
         /\ items' = Orphaned(items, pr_id)
         /\ Ended("pr_delete", pr_id, "ok")
         /\ UNCHANGED <<user, calls, backend, pos, logs, balances, seq>>

----------------------------------------------------------------------------
(* Users *)

\* a PurchaseRequest, ApprovalLog or Balance row references the user
UserReferenced(user_id) ==
    \/ \E pr \in prs : pr.created_by = user_id
    \/ \E i \in 1..Len(logs) : logs[i].user_id = user_id
    \/ \E i \in 1..Len(balances) : balances[i].user_id = user_id

\* POST /users/<user_id>/delete by user u
user_delete(u, user_id) ==
    IF role(u) # "admin" THEN Refused("user_delete", NULL, "denied")
    ELSE IF user_id \notin user THEN Refused("user_delete", NULL, "notfound")
    ELSE IF user_id = u THEN Refused("user_delete", NULL, "self")
    ELSE IF backend = "postgresql" /\ UserReferenced(user_id)
    THEN \* the DELETE violates a foreign key on user.id
         Refused("user_delete", NULL, "error")
    ELSE /\ user' = user \ {user_id}
         /\ Ended("user_delete", NULL, "ok")
         /\ UNCHANGED <<calls, backend, prs, items, pos, logs, balances, seq>>

----------------------------------------------------------------------------
(* Purchase orders *)

\* the rows of the po_create form whose LineItem exists (the others are skipped)
Found(rows) == SelectSeq(rows, LAMBDA r : HasItem(items, r.item_id))

\* the PurchaseOrder rows po_create adds
NewOrders(pr_id, rows) ==
    [i \in 1..Len(Found(rows)) |->
        [pr_id |-> pr_id,
         item_id |-> Found(rows)[i].item_id,
         supplier_name |-> Found(rows)[i].supplier_name,
         quotation_price |-> number(Found(rows)[i].quotation_price)]]

\* mutant: the status of the PR is not looked at
po_create_AnyStatus(pr_id, rows) ==
    IF ~HasPr(prs, pr_id) THEN Refused("po_create", pr_id, "notfound")
    ELSE IF \E i \in 1..Len(Found(rows)) :
                Found(rows)[i].quotation_price \notin Numerals
    THEN Refused("po_create", pr_id, "error")
    ELSE LET O == pos \o NewOrders(pr_id, rows)
         IN  /\ pos' = O
             /\ balances' = update_balance_for_pr(prs, items, O, balances, pr_id)
             /\ Ended("po_create", pr_id, "ok")
             /\ UNCHANGED <<user, calls, backend, prs, items, logs, seq>>

\* POST /pr/<pr_id>/po by any logged-in user (the handler reads no current_user)
po_create(pr_id, rows) ==
    IF ~HasPr(prs, pr_id) THEN Refused("po_create", pr_id, "notfound")
    ELSE IF GetPr(prs, pr_id).status # "approved"
    THEN Refused("po_create", pr_id, "refused")
    ELSE IF \E i \in 1..Len(Found(rows)) :
                Found(rows)[i].quotation_price \notin Numerals
    THEN \* float() raises before the commit
         Refused("po_create", pr_id, "error")
    ELSE LET O == pos \o NewOrders(pr_id, rows)
         IN  /\ pos' = O
             /\ balances' = update_balance_for_pr(prs, items, O, balances, pr_id)
             /\ Ended("po_create", pr_id, "ok")
             /\ UNCHANGED <<user, calls, backend, prs, items, logs, seq>>

\* POST /po/update/<po_id> by any logged-in user; price is the JSON number
\* sent, or NULL when the body has no quotation_price
update_po(po_id, price) ==
    IF po_id \notin 1..Len(pos) THEN Refused("update_po", NULL, "notfound")
    ELSE LET po == pos[po_id]
             O == [pos EXCEPT ![po_id].quotation_price =
                       IF price = NULL THEN @ ELSE price]
         IN  /\ pos' = O
             /\ balances' = update_balance_for_pr(prs, items, O, balances, po.pr_id)
             /\ Ended("update_po", po.pr_id, "ok")
             /\ UNCHANGED <<user, calls, backend, prs, items, logs, seq>>

\* POST /po/delete/<po_id> by any logged-in user
delete_po(po_id) ==
    IF po_id \notin 1..Len(pos) THEN Refused("delete_po", NULL, "notfound")
    ELSE LET po == pos[po_id]
             O == RemoveAt(pos, po_id)
         IN  /\ pos' = O
             /\ balances' = update_balance_for_pr(prs, items, O, balances, po.pr_id)
             /\ Ended("delete_po", po.pr_id, "ok")
             /\ UNCHANGED <<user, calls, backend, prs, items, logs, seq>>

----------------------------------------------------------------------------
(* Balance pages *)

\* GET /balance/activity/<pr_id> by user u: reconciles the PR
balance_activity(u, pr_id) ==
    IF ~HasPr(prs, pr_id) THEN Refused("balance_activity", pr_id, "notfound")
    ELSE IF role(u) # "admin" /\ u # GetPr(prs, pr_id).created_by
    THEN Refused("balance_activity", pr_id, "forbidden")
    ELSE /\ balances' = update_balance_for_pr(prs, items, pos, balances, pr_id)
         /\ Ended("balance_activity", pr_id, "ok")
         /\ UNCHANGED <<user, calls, backend, prs, items, pos, logs, seq>>

\* the ids of the PRs user_id created, in the order the query returns them
created_by(user_id) == Ascending({p.id : p \in {q \in prs : q.created_by = user_id}})

\* GET /balance/user/<user_id> by any logged-in user: reconciles that user's PRs
balance_by_user(user_id) ==
    /\ balances' = update_balances(prs, items, pos, balances, created_by(user_id))
    /\ Ended("balance_by_user", NULL, "ok")
    /\ UNCHANGED <<user, calls, backend, prs, items, pos, logs, seq>>

\* GET /balance by user u: an admin gets the user list, the others get their
\* own PRs reconciled
balance_index(u) ==
    IF role(u) = "admin" THEN Refused("balance_index", NULL, "ok")
    ELSE /\ balances' = update_balances(prs, items, pos, balances, created_by(u))
         /\ Ended("balance_index", NULL, "ok")
         /\ UNCHANGED <<user, calls, backend, prs, items, pos, logs, seq>>

----------------------------------------------------------------------------
(* Listings: the ids of the PRs a page shows to caller u; they change nothing *)

\* the caller that is not logged in
Anonymous == NULL

\* current_user.is_authenticated, as @login_required tests it
is_authenticated(u) == u \in Users

\* the ids of the PRs that user u created
own(u) == {p.id : p \in {q \in prs : q.created_by = u}}

\* GET /: the ten newest PRs (the model holds fewer), all of them for an admin
\* or approver, the caller's own for the others
index(u) ==
    IF ~is_authenticated(u) THEN {}
    ELSE IF role(u) \in {"admin", "approver"} THEN Ids(prs)
    ELSE own(u)

\* GET /api/prs: every PR; the route has no @login_required
api_prs(u) == Ids(prs)

\* GET /purchase_orders: the PRs that have purchase orders, all of them for an
\* admin, the caller's own for the others
purchase_orders_page(u) ==
    IF ~is_authenticated(u) THEN {}
    ELSE IF role(u) = "admin"
    THEN {pr_id \in Ids(prs) : purchase_orders(pos, pr_id) # {}}
    ELSE {pr_id \in own(u) : purchase_orders(pos, pr_id) # {}}

\* compute_po_total_for_pr: the helper that sums quotation_price alone
compute_po_total_for_pr(O, pr_id) ==
    SumSet(purchase_orders(O, pr_id),
           [i \in purchase_orders(O, pr_id) |-> O[i].quotation_price])

\* the suppliers of the PR's purchase orders, and the orders of one supplier
suppliers(pr_id) == {pos[i].supplier_name : i \in purchase_orders(pos, pr_id)}
supplier_groups(pr_id, supplier) ==
    {i \in purchase_orders(pos, pr_id) : pos[i].supplier_name = supplier}

\* GET /pr/<pr_id>/po/view: the totals the page shows for an existing PR
po_view(pr_id) ==
    [supplier_totals |->
        [s \in suppliers(pr_id) |->
            SumSet(supplier_groups(pr_id, s),
                   [i \in supplier_groups(pr_id, s) |-> pos[i].quotation_price])],
     grand_total |->
        SumSet(purchase_orders(pos, pr_id),
               [i \in purchase_orders(pos, pr_id) |-> pos[i].quotation_price])]

\* GET /pr/<pr_id>/po_list: the totals the page shows for an existing PR
po_list_by_pr(pr_id) ==
    [supplier_totals |->
        [s \in suppliers(pr_id) |->
            SumSet(supplier_groups(pr_id, s),
                   [i \in supplier_groups(pr_id, s) |->
                       pos[i].quotation_price * po_quantity(items, pos[i])])],
     grand_total |->
        SumSet(purchase_orders(pos, pr_id),
               [i \in purchase_orders(pos, pr_id) |->
                   pos[i].quotation_price * po_quantity(items, pos[i])])]

----------------------------------------------------------------------------
(* Requests handled at the same time *)

\* The server handles requests in threads, each with a database session of
\* its own, and no handler takes a lock.  update_balance_for_pr first reads
\* (lines 133-148: the PR, the totals, the Balance row) and then writes (lines
\* 150-164); a commit of another request may come between the two.  The reads
\* are taken as one step.

\* what update_balance_for_pr reads for an existing PR: the PR, the totals
\* and the Balance row first() returns (its position and its loaded values)
Reads(pr_id) ==
    [pr |-> GetPr(prs, pr_id),
     pr_total |-> pr_total_of(prs, items, pr_id),
     po_total |-> po_total_of(items, pos, pr_id),
     bal |-> IF HasBalance(balances, pr_id)
             THEN FirstBalance(balances, pr_id) ELSE NULL,
     loaded |-> IF HasBalance(balances, pr_id)
                THEN balances[FirstBalance(balances, pr_id)] ELSE Idle]

\* the row after the UPDATE the session flushes: a column is written only
\* when the value assigned differs from the value that was loaded
Flushed(row, loaded, pr_total, po_total) ==
    [row EXCEPT
        !.pr_total_amount = IF pr_total # loaded.pr_total_amount THEN pr_total ELSE @,
        !.po_total_amount = IF po_total # loaded.po_total_amount THEN po_total ELSE @,
        !.balance_amount = IF pr_total - po_total # loaded.balance_amount
                           THEN pr_total - po_total ELSE @]

\* worker w starts GET /balance/activity/<pr_id> for user u and runs it up
\* to the reads of update_balance_for_pr
balance_activity_read(w, u, pr_id) ==
    /\ calls[w] = Idle
    /\ HasPr(prs, pr_id)
    /\ role(u) = "admin" \/ u = GetPr(prs, pr_id).created_by
    /\ calls' = [calls EXCEPT ![w] = [at |-> "write", op |-> "balance_activity",
                                     pr_id |-> pr_id, read |-> Reads(pr_id)]]
    /\ UNCHANGED <<user, backend, prs, items, pos, logs, balances, seq, last>>

\* worker w starts POST /po/update/<po_id> and runs it up to its commit and
\* the reload of po.pr_id that follows it
update_po_commit(w, po_id, price) ==
    /\ calls[w] = Idle
    /\ po_id \in 1..Len(pos)
    /\ pos' = [pos EXCEPT ![po_id].quotation_price =
                  IF price = NULL THEN @ ELSE price]
    /\ calls' = [calls EXCEPT ![w] = [at |-> "read", op |-> "update_po",
                                     pr_id |-> pos[po_id].pr_id]]
    /\ last' = Unobserved
    /\ UNCHANGED <<user, backend, prs, items, logs, balances, seq>>

\* the reads of the update_balance_for_pr that worker w has called
reconcile_read(w) ==
    /\ calls[w].at = "read"
    /\ IF ~HasPr(prs, calls[w].pr_id)
       THEN \* the PR is gone: update_balance_for_pr returns, the request ends
            /\ calls' = [calls EXCEPT ![w] = Idle]
            /\ Ended(calls[w].op, calls[w].pr_id, "unreconciled")
       ELSE /\ calls' = [calls EXCEPT ![w] =
                            [at |-> "write", op |-> calls[w].op,
                             pr_id |-> calls[w].pr_id,
                             read |-> Reads(calls[w].pr_id)]]
            /\ UNCHANGED last
    /\ UNCHANGED <<user, backend, prs, items, pos, logs, balances, seq>>

\* the write and commit of the update_balance_for_pr that worker w has
\* called, with what it read; the request of w is finished
reconcile_write(w) ==
    /\ calls[w].at = "write"
    /\ LET c == calls[w]
           r == c.read
       IN  IF r.bal = NULL /\ backend = "postgresql" /\ ~HasPr(prs, c.pr_id)
           THEN \* the INSERT violates balance.pr_id's foreign key
                /\ balances' = balances
                /\ Ended(c.op, c.pr_id, "error")
           ELSE /\ balances' =
                       IF r.bal = NULL
                       THEN Append(balances,
                                   CreatedBalance(r.pr, r.pr_total, r.po_total))
                       ELSE [balances EXCEPT ![r.bal] =
                                Flushed(@, r.loaded, r.pr_total, r.po_total)]
                /\ Ended(c.op, c.pr_id, "ok")
    /\ calls' = [calls EXCEPT ![w] = Idle]
    /\ UNCHANGED <<user, backend, prs, items, pos, logs, seq>>

----------------------------------------------------------------------------
(* The specification: any request, one at a time *)

\* the tables stay within the bounds of the model
Bounded ==
    /\ Ids(prs) \subseteq PrIds
    /\ Ids(items) \subseteq ItemIds
    /\ seq.purchase_request <= MaxPrId
    /\ seq.line_item <= MaxItemId
    /\ Len(pos) <= MaxPOs
    /\ Len(logs) <= MaxLogs

\* a request by one of `users`, with a title of `titles`, a line-item form of
\* `lines`, purchase-order rows of `orders`, an approval action of `actions`
Request(users, titles, lines, orders, actions) ==
    \/ \E u \in users, title \in titles, rows \in lines :
           pr_new(u, title, rows) /\ Bounded'
    \/ \E u \in users, pr_id \in PrIds, title \in titles, rows \in lines :
           pr_edit(u, pr_id, title, rows) /\ Bounded'
    \/ \E u \in users, pr_id \in PrIds : pr_submit(u, pr_id)
    \/ \E u \in users, pr_id \in PrIds, action \in actions :
           pr_approve(u, pr_id, action) /\ Bounded'
    \/ \E u \in users, pr_id \in PrIds : pr_delete(u, pr_id)
    \/ \E pr_id \in PrIds, rows \in SeqsUpTo(orders, MaxRows) :
           po_create(pr_id, rows) /\ Bounded'
    \/ \E po_id \in 1..MaxPOs, price \in {NULL, 6} : update_po(po_id, price)
    \/ \E po_id \in 1..MaxPOs : delete_po(po_id)
    \/ \E u \in users, pr_id \in PrIds : balance_activity(u, pr_id)
    \/ \E user_id \in users : balance_by_user(user_id)
    \/ \E u \in users : balance_index(u)

Next == Request({1, 3}, {"A"}, LineForms, PoRows, {"approve"})

Spec == Init /\ [][Next]_vars

\* the workflow specification: every role and every action value, short forms
NextWorkflow == Request(Users, {"A"}, {<<>>, <<Ink>>}, PoRows, Actions)

SpecWorkflow == Init /\ [][NextWorkflow]_vars

\* the renaming specification: requests that give the PR one of two titles
NextTitles == Request({1, 3}, {"A", "B"}, {<<>>, <<Ink>>}, PoRows, {"approve"})

SpecTitles == Init /\ [][NextTitles]_vars

\* the audit specification: requests by the users that still have an account,
\* approvals and rejections, and the deletion of users
NextAudit ==
    \/ \E u \in user : pr_new(u, "A", <<Ink>>) /\ Bounded'
    \/ \E u \in user, pr_id \in PrIds : pr_edit(u, pr_id, "A", <<>>) /\ Bounded'
    \/ \E u \in user, pr_id \in PrIds : pr_submit(u, pr_id)
    \/ \E u \in user, pr_id \in PrIds, action \in {"approve", "reject"} :
           pr_approve(u, pr_id, action) /\ Len(logs') <= MaxAudit
    \/ \E u \in user, pr_id \in PrIds : pr_delete(u, pr_id)
    \/ \E pr_id \in PrIds, rows \in SeqsUpTo(PoRows, MaxRows) :
           po_create(pr_id, rows) /\ Bounded' /\ Len(pos') <= MaxConcurrentPOs
    \/ \E po_id \in 1..MaxPOs : delete_po(po_id)
    \/ \E u \in user, pr_id \in PrIds : balance_activity(u, pr_id)
    \/ \E u \in user, user_id \in Users : user_delete(u, user_id)

SpecAudit == Init /\ [][NextAudit]_vars

\* the concurrent specification: the admin's requests on purchase requests,
\* purchase orders and balances, where update_po and balance_activity may
\* also be handled by two workers at the same time, step by step
NextConcurrent ==
    \/ pr_new(1, "A", <<Ink>>) /\ Bounded'
    \/ \E pr_id \in PrIds : pr_approve(1, pr_id, "approve") /\ Bounded'
    \/ \E pr_id \in PrIds, rows \in SeqsUpTo(PoRows, MaxRows) :
           po_create(pr_id, rows) /\ Bounded' /\ Len(pos') <= MaxConcurrentPOs
    \/ \E po_id \in 1..MaxPOs, price \in {NULL, 6} : update_po(po_id, price)
    \/ \E po_id \in 1..MaxPOs : delete_po(po_id)
    \/ \E pr_id \in PrIds : balance_activity(1, pr_id)
    \/ \E w \in Workers, pr_id \in PrIds : balance_activity_read(w, 1, pr_id)
    \/ \E w \in Workers, po_id \in 1..MaxPOs, price \in {NULL, 6} :
           update_po_commit(w, po_id, price)
    \/ \E w \in Workers : reconcile_read(w)
    \/ \E w \in Workers : reconcile_write(w)

SpecConcurrent == Init /\ [][NextConcurrent]_vars

\* the late-reconcile specification: the admin's requests, where the PR of a
\* purchase order may be deleted between the commit of update_po and the
\* update_balance_for_pr that follows it
NextLate ==
    \/ pr_new(1, "A", <<Ink>>) /\ Bounded'
    \/ \E pr_id \in PrIds : pr_approve(1, pr_id, "approve") /\ Bounded'
    \/ \E pr_id \in PrIds, rows \in SeqsUpTo(PoRows, MaxRows) :
           po_create(pr_id, rows) /\ Bounded' /\ Len(pos') <= MaxConcurrentPOs
    \/ \E po_id \in 1..MaxPOs : delete_po(po_id)
    \/ \E pr_id \in PrIds : pr_delete(1, pr_id)
    \/ \E pr_id \in PrIds : balance_activity(1, pr_id)
    \/ \E w \in Workers, po_id \in 1..MaxPOs, price \in {NULL, 6} :
           update_po_commit(w, po_id, price)
    \/ \E w \in Workers : reconcile_read(w)
    \/ \E w \in Workers : reconcile_write(w)

SpecLate == Init /\ [][NextLate]_vars

----------------------------------------------------------------------------
(* Claims *)

\* the tables no request but a listed one may change
others == <<backend, items, pos, balances, seq>>

\* C1: every Balance row satisfies
\* balance_amount = pr_total_amount - po_total_amount (signed).
C1_BalanceIsDifference ==
    \A i \in 1..Len(balances) :
        balances[i].balance_amount =
            balances[i].pr_total_amount - balances[i].po_total_amount

\* C1 witness: a Balance row that update_balance_for_pr has written with an
\* over-ordered (negative) balance
C1_Witness ==
    /\ last.op = "balance_activity"
    /\ \E i \in 1..Len(balances) :
           /\ balances[i].pr_id = last.pr
           /\ balances[i].balance_amount < 0
           /\ balances[i].po_total_amount > 0

\* the rows of table bals for PR pr_id
RowsOf(bals, pr_id) == SelectSeq(bals, LAMBDA b : b.pr_id = pr_id)

\* the three amounts of a Balance row
Amounts(bal) == <<bal.pr_total_amount, bal.po_total_amount, bal.balance_amount>>

\* C2: reconcile is idempotent.  In every reachable state and for every PR, a
\* second update_balance_for_pr leaves the Balance table the first one left,
\* with a single row for the PR whose amounts are those computed from an empty
\* Balance table; and a second balance_activity request in a row changes no
\* Balance row.
C2_ReconcileIdempotent ==
    /\ [](\A pr_id \in Ids(prs) :
            LET once == update_balance_for_pr(prs, items, pos, balances, pr_id)
                twice == update_balance_for_pr(prs, items, pos, once, pr_id)
                fresh == update_balance_for_pr(prs, items, pos, <<>>, pr_id)
            IN  /\ twice = once
                /\ Len(RowsOf(once, pr_id)) = 1
                /\ Amounts(RowsOf(once, pr_id)[1]) = Amounts(fresh[1]))
    /\ [][(last.op = "balance_activity" /\ last' = last) => balances' = balances]_vars

\* C2 witness: balance_activity has reconciled a PR that has line items and
\* purchase orders
C2_Witness ==
    /\ last.op = "balance_activity"
    /\ line_items(items, last.pr) # {}
    /\ purchase_orders(pos, last.pr) # {}
    /\ Len(RowsOf(balances, last.pr)) = 1
    /\ RowsOf(balances, last.pr)[1].po_total_amount > 0

\* the sum of quantity x unit_price over the LineItem ids from k up that
\* belong to the PR
RECURSIVE LineSum(_, _)
LineSum(pr_id, k) ==
    IF k > MaxItemId THEN 0
    ELSE LineSum(pr_id, k + 1) +
         (IF \E li \in items : li.id = k /\ li.pr_id = pr_id
          THEN LET li == CHOOSE x \in items : x.id = k
               IN  li.quantity * li.unit_price
          ELSE 0)

\* the sum of quotation_price x quantity of the linked LineItem over the
\* PurchaseOrder rows from position k up that belong to the PR
RECURSIVE OrderSum(_, _)
OrderSum(pr_id, k) ==
    IF k > Len(pos) THEN 0
    ELSE OrderSum(pr_id, k + 1) +
         (IF pos[k].pr_id = pr_id /\ \E li \in items : li.id = pos[k].item_id
          THEN pos[k].quotation_price *
               (CHOOSE li \in items : li.id = pos[k].item_id).quantity
          ELSE 0)

\* C3: after reconcile of an existing PR, its Balance row holds pr_total_amount
\* = the sum of quantity x unit_price over the PR's current LineItems (not the
\* cached total) and po_total_amount = the sum of quotation_price x quantity of
\* the linked LineItem over the PR's POs.
C3_ReconcileTotals ==
    (last.op \in {"balance_activity", "pr_edit"} /\ HasPr(prs, last.pr)) =>
        /\ HasBalance(balances, last.pr)
        /\ LET bal == balances[FirstBalance(balances, last.pr)]
           IN  /\ bal.pr_total_amount = LineSum(last.pr, 1)
               /\ bal.po_total_amount = OrderSum(last.pr, 1)

\* C3 witness: the example of the specification, LineItems (2 @ 10), (1 @ 5),
\* PO1 on item 1 at 9 and PO2 on item 2 at 6, reconciled to 25, 24, 1 while
\* the cached total of the PR is another number
C3_Witness ==
    /\ last.op = "balance_activity"
    /\ HasPr(prs, last.pr)
    /\ GetPr(prs, last.pr).total # 25
    /\ {<<li.quantity, li.unit_price>> : li \in line_items(items, last.pr)}
           = {<<2, 10>>, <<1, 5>>}
    /\ Len(pos) = 2
    /\ \A i \in 1..2 : pos[i].pr_id = last.pr /\ HasItem(items, pos[i].item_id)
    /\ {<<GetItem(items, pos[i].item_id).quantity, pos[i].quotation_price>> :
            i \in 1..2} = {<<2, 9>>, <<1, 6>>}
    /\ Amounts(balances[FirstBalance(balances, last.pr)]) = <<25, 24, 1>>

\* C4: deletePR on a PR that has a PO changes nothing in the store, ends as
\* Conflict once the role gate is passed, and so no PO ever references a PR
\* that no longer exists.
C4_DeleteGuarded ==
    /\ [](\A i \in 1..Len(pos) : HasPr(prs, pos[i].pr_id))
    /\ [][\A u \in Users, pr_id \in PrIds :
            (/\ HasPr(prs, pr_id)
             /\ purchase_orders(pos, pr_id) # {}
             /\ pr_delete(u, pr_id))
            => /\ UNCHANGED store
               /\ role(u) = "admin" =>
                      (last'.op = "pr_delete" /\ last'.pr = pr_id
                          /\ last'.outcome = "conflict")]_vars

\* C4 witness: an admin's delete of a PR with a PO has ended as Conflict
C4_Witness ==
    /\ last.op = "pr_delete"
    /\ last.outcome = "conflict"
    /\ HasPr(prs, last.pr)
    /\ purchase_orders(pos, last.pr) # {}

\* C5: an admin's deletePR on a PR without POs removes the PR and every
\* LineItem of it (stated as claimed; the code leaves the rows behind).
C5_DeleteCascades ==
    [][\A u \in Users, pr_id \in PrIds :
        (/\ role(u) = "admin"
         /\ HasPr(prs, pr_id)
         /\ purchase_orders(pos, pr_id) = {}
         /\ pr_delete(u, pr_id))
        => /\ ~HasPr(prs', pr_id)
           /\ \A li \in line_items(items, pr_id) : li.id \notin Ids(items')]_vars

\* the LineItem rows of the PR in table I, in id order, without their ids
RECURSIVE Contents(_, _, _)
Contents(I, pr_id, k) ==
    IF k > MaxItemId THEN <<>>
    ELSE (IF \E li \in I : li.id = k /\ li.pr_id = pr_id
          THEN LET li == CHOOSE x \in I : x.id = k
               IN  <<[item_name |-> li.item_name, quantity |-> li.quantity,
                      unit_price |-> li.unit_price]>>
          ELSE <<>>) \o Contents(I, pr_id, k + 1)

\* what an edit is to store for the rows of a form: nothing for a row without
\* a name, quantity 1 at price 0 for a row whose numbers do not parse
RECURSIVE Stored(_)
Stored(rows) ==
    IF rows = <<>> THEN <<>>
    ELSE LET r == Head(rows)
             parses == r.quantity \in Numerals /\ r.unit_price \in Numerals
         IN  (IF r.item_name = "" THEN <<>>
              ELSE <<[item_name |-> r.item_name,
                      quantity |-> IF parses THEN number(r.quantity) ELSE 1,
                      unit_price |-> IF parses THEN number(r.unit_price) ELSE 0]>>)
             \o Stored(Tail(rows))

\* C6 as claimed: an edit with a form of M rows leaves exactly M LineItems
\* for the PR.
C6_EditLeavesEveryRow ==
    last.op = "pr_edit" =>
        Cardinality(line_items(items, last.pr)) = Len(last.form)

\* C6 as amended: an edit that is carried out leaves, for the PR, exactly one
\* LineItem per submitted row that has a name, in the order of the form (with
\* quantity 1 and price 0 where the row's numbers do not parse), and none of
\* the rows the PR had before; the LineItems of other PRs are left alone.
C6_EditReplacesNamedRows ==
    /\ [](last.op = "pr_edit" =>
            /\ Contents(items, last.pr, 1) = Stored(last.form)
            /\ Cardinality(line_items(items, last.pr)) = Len(Stored(last.form)))
    /\ [][last'.op = "pr_edit" =>
            items' \ line_items(items', last'.pr)
                = items \ line_items(items, last'.pr)]_vars

\* C6 witness: on PostgreSQL, where ids are never reused, a PR whose first two
\* LineItem ids are gone holds the one row kept of a later two-row edit
C6_Witness ==
    /\ last.op = "pr_edit"
    /\ last.form = <<Unnamed, Ink>>
    /\ backend = "postgresql"
    /\ seq.line_item = 3
    /\ Ids(line_items(items, last.pr)) = {3}

\* C7 as claimed: a PR's status becomes approved or rejected only from pending.
C7_DecidedOnlyFromPending ==
    [][\A p \in prs, q \in prs' :
        (p.id = q.id /\ q.status # p.status /\ q.status \in {"approved", "rejected"})
        => p.status = "pending"]_vars

\* C8 as claimed: pr_submit sets the status to pending when the actor is the
\* creator, a requester, and the PR is a draft, and leaves it alone otherwise.
C8_SubmitOnlyDraftByCreator ==
    [][\A u \in Users, pr_id \in PrIds :
        (HasPr(prs, pr_id) /\ pr_submit(u, pr_id))
        => LET p == GetPr(prs, pr_id)
               q == GetPr(prs', pr_id)
           IN  q.status =
                   IF p.created_by = u /\ role(u) = "requester" /\ p.status = "draft"
                   THEN "pending" ELSE p.status]_vars

\* C9 as claimed: once a PR is approved or rejected its status never changes.
C9_DecidedIsTerminal ==
    [][\A p \in prs, q \in prs' :
        (p.id = q.id /\ p.status \in {"approved", "rejected"})
        => q.status = p.status]_vars

C11_OrdersOnlyWhenApproved ==
    [][/\ \A pr_id \in PrIds, rows \in SeqsUpTo(PoRows, MaxRows) :
            (/\ HasPr(prs, pr_id)
             /\ GetPr(prs, pr_id).status # "approved"
             /\ po_create(pr_id, rows))
            => UNCHANGED <<store, backend, seq>>
       /\ \A i \in (Len(pos) + 1)..Len(pos') :
            /\ HasPr(prs, pos'[i].pr_id)
            /\ GetPr(prs, pos'[i].pr_id).status = "approved"]_vars

\* C11 witness: po_create was refused for a PR that went back to pending
\* after a PO was made for it while it was approved
C11_Witness ==
    /\ last.op = "po_create"
    /\ last.outcome = "refused"
    /\ HasPr(prs, last.pr)
    /\ GetPr(prs, last.pr).status = "pending"
    /\ Len(pos) = 1

\* C12: pr_approve by an actor who is neither approver nor admin, the creator
\* of the PR included, ends as Forbidden, appends no ApprovalLog row and
\* changes neither the status nor anything else.
C12_ApproveNeedsRole ==
    [][\A u \in Users, pr_id \in PrIds, action \in Actions :
        (/\ HasPr(prs, pr_id)
         /\ role(u) \notin {"approver", "admin"}
         /\ pr_approve(u, pr_id, action))
        => /\ UNCHANGED <<store, backend, seq>>
           /\ last'.op = "pr_approve"
           /\ last'.outcome = "forbidden"]_vars

\* C12 witness: a requester's approve of the pending PR it created has ended
\* as Forbidden
C12_Witness ==
    /\ last.op = "pr_approve"
    /\ last.outcome = "forbidden"
    /\ HasPr(prs, last.pr)
    /\ role(GetPr(prs, last.pr).created_by) = "requester"
    /\ GetPr(prs, last.pr).status = "pending"
    /\ logs = <<>>

\* C13 as claimed: no partial commits.  A request either applies all of its
\* effects or leaves the store as it was; for pr_new, either nothing is stored
\* or the new PR is stored with one LineItem for every row of the form.
C13_NoPartialCommit ==
    [][\A u \in Users, rows \in LineForms :
        pr_new(u, "A", rows) =>
            \/ UNCHANGED store
            \/ \E p \in prs' \ prs :
                   Cardinality(line_items(items', p.id)) = Len(rows)]_vars

\* C14 as claimed: no update is lost.  Once every request in progress has
\* completed, the Balance row of each PR holds the totals, and their
\* difference, computed from the LineItems and POs as they are then.
C14_NoLostUpdate ==
    (\A w \in Workers : calls[w] = Idle) =>
        \A p \in prs :
            HasBalance(balances, p.id) =>
                Amounts(balances[FirstBalance(balances, p.id)]) =
                    <<LineSum(p.id, 1), OrderSum(p.id, 1),
                      LineSum(p.id, 1) - OrderSum(p.id, 1)>>

\* C15 as claimed: there is at most one Balance row for a PR, whatever the
\* interleaving of the reconciliations of that PR.
C15_OneBalancePerPr ==
    \A pr_id \in PrIds : Len(RowsOf(balances, pr_id)) <= 1

\* C16 as claimed: on every listing entry point an admin or approver is shown
\* all PRs (on the purchase-order listing: all PRs that have POs), and a
\* requester or a caller who is not logged in is shown no PR that someone
\* else created.
C16_ListingRoleScoped ==
    \A u \in Users \cup {Anonymous} :
        IF is_authenticated(u) /\ role(u) \in {"admin", "approver"}
        THEN /\ index(u) = Ids(prs)
             /\ api_prs(u) = Ids(prs)
             /\ purchase_orders_page(u) =
                    {pr_id \in Ids(prs) : purchase_orders(pos, pr_id) # {}}
        ELSE index(u) \cup api_prs(u) \cup purchase_orders_page(u) \subseteq own(u)

\* C17: after reconcile of a PR that has no LineItems, the PR's Balance row
\* has pr_total_amount = 0, whatever POs the PR has, and balance_amount =
\* -po_total_amount.
C17_NoItemsNoTotal ==
    (/\ last.op \in {"balance_activity", "pr_edit"}
     /\ HasPr(prs, last.pr)
     /\ line_items(items, last.pr) = {}) =>
        /\ HasBalance(balances, last.pr)
        /\ LET bal == balances[FirstBalance(balances, last.pr)]
           IN  /\ bal.pr_total_amount = 0
               /\ bal.balance_amount = 0 - bal.po_total_amount

\* C17 witness: a PR without LineItems has been reconciled while it has a PO
\* that counts (the PO is on a LineItem that belongs to no PR), and other
\* LineItems are in the store
C17_Witness ==
    /\ last.op = "balance_activity"
    /\ HasPr(prs, last.pr)
    /\ line_items(items, last.pr) = {}
    /\ items # {}
    /\ purchase_orders(pos, last.pr) # {}
    /\ HasBalance(balances, last.pr)
    /\ balances[FirstBalance(balances, last.pr)].po_total_amount > 0
    /\ balances[FirstBalance(balances, last.pr)].balance_amount < 0

\* C18 as claimed: an edit of a PR whose POs are all on LineItems of that PR
\* is carried out, and the reconcile it ends with counts those POs as 0, their
\* LineItems being gone.
C18_ReplacedItemsCountZero ==
    [][\A u \in Users, pr_id \in PrIds, rows \in LineForms :
        (/\ HasPr(prs, pr_id)
         /\ u = GetPr(prs, pr_id).created_by \/ role(u) \in {"admin", "approver"}
         /\ purchase_orders(pos, pr_id) # {}
         /\ \A i \in purchase_orders(pos, pr_id) :
                pos[i].item_id \in Ids(line_items(items, pr_id))
         /\ pr_edit(u, pr_id, "A", rows))
        => /\ last'.op = "pr_edit"
           /\ last'.outcome = "ok"
           /\ HasBalance(balances', pr_id)
           /\ balances'[FirstBalance(balances', pr_id)].po_total_amount = 0]_vars

\* C19 as claimed: every PO references a LineItem that is in the store.
C19_OrderItemExists ==
    \A i \in 1..Len(pos) : HasItem(items, pos[i].item_id)

\* C20 as claimed: between requests, the Balance row of every existing PR
\* that has one holds the pr_total_amount and po_total_amount that reconcile
\* would compute from the LineItems and POs as they are.
C20_BalanceCurrent ==
    \A p \in prs :
        HasBalance(balances, p.id) =>
            LET bal == balances[FirstBalance(balances, p.id)]
            IN  /\ bal.pr_total_amount = LineSum(p.id, 1)
                /\ bal.po_total_amount = OrderSum(p.id, 1)

C22_LogAppendOnly ==
    [][/\ Len(logs') \in {Len(logs), Len(logs) + 1}
       /\ \A i \in 1..Len(logs) : logs'[i] = logs[i]
       /\ \A u \in user, pr_id \in PrIds, action \in {"approve", "reject"} :
              (/\ HasPr(prs, pr_id)
               /\ role(u) \in {"approver", "admin"}
               /\ pr_approve(u, pr_id, action))
              => logs' = Append(logs, [pr_id |-> pr_id, user_id |-> u,
                                       action |-> action])]_vars

\* C22 witness: two ApprovalLog rows are kept, the first of them for a PR
\* and by a user that have both been deleted since
C22_Witness ==
    /\ Len(logs) = 2
    /\ ~HasPr(prs, logs[1].pr_id)
    /\ logs[1].user_id \notin user
    /\ logs[1].action = "reject"

\* C23: every purchase-order total of the program follows one rule,
\* quotation_price x quantity of the linked LineItem: for every existing PR
\* the totals of the PO view, those of the PO list by PR, the helper
\* compute_po_total_for_pr and the po_total of update_balance_for_pr agree,
\* and the supplier subtotals add up to the grand total.
C23_PoTotalsAgree ==
    \A pr_id \in Ids(prs) :
        /\ po_view(pr_id) = po_list_by_pr(pr_id)
        /\ po_view(pr_id).grand_total = po_total_of(items, pos, pr_id)
        /\ compute_po_total_for_pr(pos, pr_id) = po_total_of(items, pos, pr_id)
        /\ SumSet(suppliers(pr_id), po_view(pr_id).supplier_totals)
               = po_view(pr_id).grand_total
        /\ SumSet(suppliers(pr_id), po_list_by_pr(pr_id).supplier_totals)
               = po_list_by_pr(pr_id).grand_total

\* C24: update_balance_for_pr for a pr_id that names no existing PR is a
\* no-op wherever it is called: it creates no Balance row, modifies no
\* Balance row and changes nothing else in the store.
C24_AbsentPrIsNoOp ==
    /\ [](\A pr_id \in 1..(MaxPrId + 1) :
             ~HasPr(prs, pr_id)
             => update_balance_for_pr(prs, items, pos, balances, pr_id) = balances)
    /\ [][\A w \in Workers :
             (/\ calls[w].at = "read"
              /\ ~HasPr(prs, calls[w].pr_id)
              /\ calls'[w] = Idle)
             => UNCHANGED <<store, user, backend, seq>>]_vars

\* C24 witness: update_po has ended after its update_balance_for_pr found
\* the PR deleted, and the Balance row the PR had is as it was
C24_Witness ==
    /\ last.op = "update_po" /\ last.outcome = "unreconciled"
    /\ ~HasPr(prs, last.pr)
    /\ Len(balances) = 1 /\ balances[1].pr_id = last.pr
    /\ balances[1].pr_total_amount = 5

\* C25 as claimed: the LineItem a PO is linked to belongs to the PR of the PO
\* (po.item.pr_id = po.pr_id).
C25_OrderItemOfSamePr ==
    \A i \in 1..Len(pos) :
        HasItem(items, pos[i].item_id)
        => GetItem(items, pos[i].item_id).pr_id = pos[i].pr_id

\* C26 as claimed: the cached total of every PR is the sum of quantity x
\* unit_price over its LineItems, so compute_pr_total and the pr_total of
\* update_balance_for_pr return the same value for the PR.
C26_CachedTotalCurrent ==
    \A p \in prs :
        /\ p.total = LineSum(p.id, 1)
        /\ compute_pr_total(prs, p.id) = pr_total_of(prs, items, p.id)

\* C27 as claimed: every Balance row refers to an existing PR, so the rows of
\* a user never include the row of a PR that has been deleted.
C27_BalanceOfExistingPr ==
    \A i \in 1..Len(balances) : HasPr(prs, balances[i].pr_id)

====
